---------------------------- MODULE Spec2Model ----------------------------
(***************************************************************************)
(* A model of two plugins of the tp-dcc repository:                         *)
(*                                                                         *)
(*  * the tpUnreal editor module (FtpUnrealModule): the Content Browser    *)
(*    menu handlers that delete unused assets and empty folders, and the   *)
(*    helper ShowMessageDialog they prompt the user with;                  *)
(*  * the baseLoc locator node (BaseLoc / BaseLocOverride): the draw       *)
(*    override pair prepareForDraw / addUIDrawables.                       *)
(*                                                                         *)
(* The two plugins share no state.  Each has its own specification, which  *)
(* leaves the other plugin's variables untouched.                          *)
(***************************************************************************)
EXTENDS Integers, Sequences, FiniteSets, TLC

VARIABLES
    \* ---- tpUnreal -------------------------------------------------------
    FolderPathsSelected,   \* FtpUnrealModule::FolderPathsSelected
    assetState,            \* host: asset path -> "none" | "stale" | "unused" | "used"
    dirs,                  \* host: the content directories that exist
    redirectors,           \* host: the UObjectRedirector assets that exist
    lastRun,               \* the last handler run: its inputs, host calls, result
    \* ---- baseLoc -------------------------------------------------------
    attr,                  \* the node's attribute values (the plugs)
    tablePoints,           \* the outline table of the preset (BaseLocIcons.h), as numbers
    camMatrix,             \* cameraPath.inclusiveMatrix(), translation removed
    worldMatrix,           \* objPath.inclusiveMatrix(), translation removed
    data,                  \* the BaseLocData the draw override keeps
    oldData,               \* the matrices of the MUserData the last prepareForDraw was handed
    m_locPointsNum,        \* global int m_locPointsNum
    m_locTrianglesNum,     \* global int m_locTrianglesNum
    drawLog,               \* what the draw manager was given in this frame
    pc,                    \* the place in the frame: "idle" | "prepared"
    \* ---- the renderer and the disk -----------------------------------
    drawDirty,             \* MRenderer: the node's geometry is flagged draw-dirty
    dagPathValid,          \* what data->m_dagPath.isValid() answers
    refreshed,             \* the last triggerRefresh call: what it saw and marked
    disk,                  \* the preset files: name -> the characters written
    boundingBox            \* the plugs boundingBoxA and boundingBoxB of the node

ueVars == <<FolderPathsSelected, assetState, dirs, redirectors, lastRun>>

locVars == <<attr, tablePoints, camMatrix, worldMatrix, data, oldData,
             m_locPointsNum, m_locTrianglesNum, drawLog, pc>>

hostVars == <<drawDirty, dagPathValid, refreshed, disk, boundingBox>>

vars == <<ueVars, locVars, hostVars>>

-----------------------------------------------------------------------------
(***************************************************************************)
(* Strings.  An FString path is a sequence of tokens: the separator "/"    *)
(* and names, a name being a maximal run of characters other than "/".     *)
(* The four excluded words hold no "/", so a path contains one exactly     *)
(* when one of its name tokens does.                                       *)
(***************************************************************************)

Range(s) == { s[i] : i \in 1..Len(s) }

Last(s) == s[Len(s)]

Front(s) == SubSeq(s, 1, Len(s) - 1)

\* The words the handlers skip (tpUnreal.cpp 117-120, 155-158, 305-308).
ExcludedWords == { "Developers", "Collections", "__ExternalActors__", "__ExternalObjects__" }

\* The excluded words a name token contains as a substring.  FString::Contains
\* searches with ESearchCase::IgnoreCase.
WordsIn(tok) ==
    CASE tok = "Developers"       -> { "Developers" }
      [] tok = "Collections"      -> { "Collections" }
      [] tok = "OldCollections"   -> { "Collections" }
      [] OTHER                    -> {}

\* FString::Contains(word) on a path.
Contains(path, word) == \E i \in 1..Len(path) : word \in WordsIn(path[i])

\* The four-way test the three handlers repeat.
IsExcludedPath(path) == \E w \in ExcludedWords : Contains(path, w)

\* A name token without its last character.
ChopToken(tok) ==
    CASE tok = "X.X" -> "X."
      [] tok = "Y.Y" -> "Y."
      [] tok = "Z.Z" -> "Z."
      [] tok = "Game" -> "Gam"
      [] tok = "Developers" -> "Developer"
      [] tok = "Collections" -> "Collection"
      [] tok = "OldCollections" -> "OldCollection"
      [] OTHER -> ""

\* Path.RemoveAt(Path.Len()-1): the path without its last character.
RemoveLastChar(path) ==
    IF Last(path) = "/" THEN Front(path)
    ELSE IF ChopToken(Last(path)) = "" THEN Front(path)
    ELSE Front(path) \o << ChopToken(Last(path)) >>

-----------------------------------------------------------------------------
(***************************************************************************)
(* The content the host holds.                                             *)
(***************************************************************************)

pGame   == << "/", "Game" >>
pA      == << "/", "Game", "/", "A" >>
pAOld   == << "/", "Game", "/", "A", "/", "OldCollections" >>
pB      == << "/", "Game", "/", "B" >>
pDev    == << "/", "Game", "/", "Developers" >>

aAX     == << "/", "Game", "/", "A", "/", "X.X" >>
aBY     == << "/", "Game", "/", "B", "/", "Y.Y" >>
aDevZ   == << "/", "Game", "/", "Developers", "/", "Z.Z" >>

\* The order the asset registry lists assets and sub-paths in.
AssetOrder == << aAX, aBY, aDevZ >>
DirOrder   == << pA, pAOld, pB, pDev >>

AllAssets == Range(AssetOrder)
AllDirs   == Range(DirOrder) \cup { pGame }

\* The folders the user can select in the Content Browser.
SelectablePaths == { pGame, pA, pB }

\* The redirectors: each lives in a package path.
rGame == [ name |-> "R1", packagePath |-> pGame ]
rB    == [ name |-> "R2", packagePath |-> pB ]
AllRedirectors == { rGame, rB }

\* path lies below dir
IsUnder(path, dir) ==
    /\ Len(path) > Len(dir) + 1
    /\ SubSeq(path, 1, Len(dir)) = dir
    /\ path[Len(dir) + 1] = "/"


-----------------------------------------------------------------------------
(***************************************************************************)
(* The host calls the handlers make.  The host is not part of the          *)
(* repository; each operator states what the call returns or changes.      *)
(***************************************************************************)

\* UEditorAssetLibrary::ListAssets(DirectoryPath, bRecursive = true,
\* bIncludeFolder): the object paths of the registered assets below the
\* directory and, with bIncludeFolder, its sub-paths, each ending in "/".
ListAssets(DirectoryPath, bIncludeFolder) ==
    LET found   == SelectSeq(AssetOrder,
                     LAMBDA a : assetState[a] # "none" /\ IsUnder(a, DirectoryPath))
        folders == SelectSeq(DirOrder,
                     LAMBDA d : d \in dirs /\ IsUnder(d, DirectoryPath))
    IN  IF bIncludeFolder
        THEN found \o [ i \in 1..Len(folders) |-> Append(folders[i], "/") ]
        ELSE found

\* UEditorAssetLibrary::DoesAssetExist
DoesAssetExist(AssetPathName) ==
    /\ AssetPathName \in AllAssets
    /\ assetState[AssetPathName] \in { "unused", "used" }

\* UEditorAssetLibrary::FindPackageReferencersForAsset(...).Num()
NumPackageReferencers(AssetPathName) ==
    IF assetState[AssetPathName] = "used" THEN 1 ELSE 0

\* UEditorAssetLibrary::DoesDirectoryExist
DoesDirectoryExist(Path) == Path \in dirs

\* UEditorAssetLibrary::DoesDirectoryHaveAssets(Path, bRecursive = true)
DoesDirectoryHaveAssets(Path) ==
    \E a \in AllAssets : assetState[a] # "none" /\ IsUnder(a, Path)

\* UEditorAssetLibrary::DeleteDirectory on the directories ds: a directory
\* that exists and holds no file is removed from disk with everything below
\* it (IFileManager::DeleteDirectory with Tree = true); the call fails on a
\* directory that is gone.
DeleteDirectory(Path, ds) ==
    IF Path \in ds /\ ~DoesDirectoryHaveAssets(Path)
    THEN [ ok |-> TRUE,  dirs |-> { d \in ds : d # Path /\ ~IsUnder(d, Path) } ]
    ELSE [ ok |-> FALSE, dirs |-> ds ]

\* The buttons FMessageDialog::Open offers for a dialog type: the responses
\* it can return.
Buttons(MessageType) ==
    CASE MessageType = "Ok"       -> { "Ok" }
      [] MessageType = "YesNo"    -> { "Yes", "No" }
      [] MessageType = "OkCancel" -> { "Ok", "Cancel" }

-----------------------------------------------------------------------------
(***************************************************************************)
(* DebugHelpers.h                                                          *)
(***************************************************************************)

Msg(text) == [ text |-> text, paths |-> << >> ]

\* ShowMessageDialog: the dialogs it can have opened, one per response the
\* user can give.  "requested" is the MessageType argument, "shown" the type
\* handed to FMessageDialog::Open.
ShowMessageDialog(MessageType, Message, bShowMessageAsWarning) ==
    LET shown == IF bShowMessageAsWarning THEN MessageType ELSE "Ok"
        title == IF bShowMessageAsWarning THEN "Warning" ELSE ""
    IN  { [ call      |-> "MessageDialog",
            requested |-> MessageType,
            asWarning |-> bShowMessageAsWarning,
            shown     |-> shown,
            title     |-> title,
            msg       |-> Message,
            response  |-> r ] : r \in Buttons(shown) }

\* DebugHelpers::Print
PrintMessage(Message) == [ call |-> "Print", msg |-> Message ]

\* DebugHelpers::ShowNotifyInfo
ShowNotifyInfo(Message) == [ call |-> "NotifyInfo", msg |-> Message ]

-----------------------------------------------------------------------------
(***************************************************************************)
(* tpUnreal.cpp                                                            *)
(***************************************************************************)

\* FName compares without case: the key two names are equal by.
LowerToken(tok) ==
    CASE tok = "Game" -> "game"
      [] tok = "GAME" -> "game"
      [] tok = "Plugin" -> "plugin"
      [] OTHER -> tok

FNameKey(name) == [ i \in 1..Len(name) |-> LowerToken(name[i]) ]

\* MatchAndGetCaptureGroup(TEXT("^(/[^/]*)"), Text, 1): the leading "/" with
\* the name that follows it, or the empty string when Text starts otherwise.
MatchAndGetCaptureGroup(Text) ==
    IF Len(Text) >= 1 /\ Text[1] = "/"
    THEN IF Len(Text) >= 2 /\ Text[2] # "/" THEN SubSeq(Text, 1, 2) ELSE << "/" >>
    ELSE << >>

\* The loop of lines 260-265 with Add in place of FindOrAdd.
RECURSIVE AddKeys_AlwaysAdd(_, _)
AddKeys_AlwaysAdd(Array, keys) ==
    IF Array = << >> THEN keys
    ELSE AddKeys_AlwaysAdd(Tail(Array),
                           Append(keys, MatchAndGetCaptureGroup(Head(Array))))

\* TMap<FName,int32>::FindOrAdd over the array, then GetKeys: the keys in
\* the order they were first added.
RECURSIVE AddKeys(_, _)
AddKeys(Array, keys) ==
    IF Array = << >> THEN keys
    ELSE LET TopLevelPath == MatchAndGetCaptureGroup(Head(Array))
         IN  IF \E i \in 1..Len(keys) : FNameKey(keys[i]) = FNameKey(TopLevelPath)
             THEN AddKeys(Tail(Array), keys)
             ELSE AddKeys(Tail(Array), Append(keys, TopLevelPath))

GetTopLevelPackagePath(Array) == AddKeys(Array, << >>)

\* FixUpRedirectors: what it can have done, as [calls, redirectors].  The
\* filter sets no bRecursivePaths, so only the redirectors whose package path
\* is one of PackagePaths are found.  Loading them can be cancelled;
\* otherwise FixupReferencers fixes the referencers and deletes them.
FixUpRedirectors(PackagePaths) ==
    LET AssetList == { r \in redirectors :
                         \E i \in 1..Len(PackagePaths) :
                            FNameKey(r.packagePath) = FNameKey(PackagePaths[i]) }
        entry == [ call |-> "FixUpRedirectors", paths |-> PackagePaths ]
    IN  IF AssetList = {}
        THEN { [ calls |-> << entry >>, redirectors |-> redirectors ] }
        ELSE { [ calls |-> << entry >>, redirectors |-> redirectors ],
               [ calls |-> << entry, [ call |-> "FixupReferencers",
                                        redirectors |-> AssetList ] >>,
                 redirectors |-> redirectors \ AssetList ] }

\* What a handler saw when it was called.
Pre == [ sel |-> FolderPathsSelected, assets |-> assetState,
         dirs |-> dirs, redirectors |-> redirectors ]

\* A handler returns having made `calls` and changed nothing of the host.
Return(op, calls, ret) ==
    /\ lastRun' = [ op |-> op, pre |-> Pre, calls |-> calls, ret |-> ret ]
    /\ UNCHANGED << FolderPathsSelected, assetState, dirs, redirectors >>

\* CustomContentBrowserMenuExtender(SelectedPaths): the menu entries are
\* added, and the selection recorded, only for a non-empty selection.
CustomContentBrowserMenuExtender(SelectedPaths) ==
    /\ FolderPathsSelected' =
          IF Len(SelectedPaths) > 0 THEN SelectedPaths ELSE FolderPathsSelected
    /\ lastRun' = [ op |-> "MenuExtender", pre |-> Pre, calls |-> << >>,
                    ret |-> SelectedPaths ]
    /\ UNCHANGED << assetState, dirs, redirectors >>

\* The loop of lines 115-129 without the referencer test of line 125.
IsUnusedAsset_NoReferencerTest(AssetPathName) ==
    /\ ~IsExcludedPath(AssetPathName)
    /\ DoesAssetExist(AssetPathName)

\* The loop of lines 115-129: the assets handed to DeleteAssets.
IsUnusedAsset(AssetPathName) ==
    /\ ~IsExcludedPath(AssetPathName)
    /\ DoesAssetExist(AssetPathName)
    /\ NumPackageReferencers(AssetPathName) = 0

UnusedAssetsData(AssetsPathNames) == SelectSeq(AssetsPathNames, IsUnusedAsset)

MsgSelectOne  == Msg("Please select only one folder")
MsgNoAssets   == Msg("No assets found under folder")
MsgConfirm    == Msg("Are you sure you want to delete all unused assets under folder?")
MsgNoUnused   == Msg("No unused assets found under folder")
MsgNoEmpty    == Msg("No empty folders found")

OnDeleteUnusedAssetsButtonClicked ==
    IF FolderPathsSelected = << >> THEN Return("DeleteUnusedAssets", << >>, << >>)
    ELSE IF Len(FolderPathsSelected) > 1
    THEN \E d \in ShowMessageDialog("Ok", MsgSelectOne, TRUE) :
            Return("DeleteUnusedAssets", << d >>, << >>)
    ELSE LET AssetsPathNames == ListAssets(FolderPathsSelected[1], FALSE) IN
    IF Len(AssetsPathNames) = 0
    THEN \E d \in ShowMessageDialog("Ok", MsgNoAssets, TRUE) :
            Return("DeleteUnusedAssets", << d >>, << >>)
    ELSE \E c \in ShowMessageDialog("YesNo", MsgConfirm, FALSE) :
    IF c.response = "No" THEN Return("DeleteUnusedAssets", << c >>, << >>)
    ELSE LET unused == UnusedAssetsData(AssetsPathNames) IN
    IF Len(unused) > 0
    THEN \E fix \in FixUpRedirectors(GetTopLevelPackagePath(unused)) :
         \* ObjectTools::DeleteAssets deletes those the user confirms in the
         \* host's own delete dialog.
         \E deleted \in SUBSET Range(unused) :
            /\ lastRun' = [ op |-> "DeleteUnusedAssets", pre |-> Pre,
                            calls |-> << c >> \o fix.calls \o
                                      << [ call |-> "DeleteAssets",
                                           assets |-> unused,
                                           deleted |-> deleted ] >>,
                            ret |-> << >> ]
            /\ redirectors' = fix.redirectors
            /\ assetState' = [ a \in AllAssets |->
                                 IF a \in deleted THEN "none" ELSE assetState[a] ]
            /\ UNCHANGED << FolderPathsSelected, dirs >>
    ELSE \E d \in ShowMessageDialog("Ok", MsgNoUnused, TRUE) :
            Return("DeleteUnusedAssets", << c, d >>, << >>)

\* The loop of lines 153-169: the paths found empty.
IsEmptyFolderEntry(FolderPath) ==
    /\ ~IsExcludedPath(FolderPath)
    /\ DoesDirectoryExist(RemoveLastChar(FolderPath))
    /\ ~DoesDirectoryHaveAssets(RemoveLastChar(FolderPath))

EmptyFolderPaths(FolderPaths) ==
    LET kept == SelectSeq(FolderPaths, IsEmptyFolderEntry)
    IN  [ i \in 1..Len(kept) |-> RemoveLastChar(kept[i]) ]

\* The loop of lines 183-193 over the paths left, from the directories ds.
RECURSIVE DeleteFolders(_, _, _, _)
DeleteFolders(paths, ds, calls, Counter) ==
    IF paths = << >> THEN [ dirs |-> ds, calls |-> calls, Counter |-> Counter ]
    ELSE LET r    == DeleteDirectory(Head(paths), ds)
             call == [ call |-> "DeleteDirectory", path |-> Head(paths), ok |-> r.ok ]
         IN  IF r.ok
             THEN DeleteFolders(Tail(paths), r.dirs, Append(calls, call), Counter + 1)
             ELSE DeleteFolders(Tail(paths), r.dirs,
                                calls \o << call,
                                   PrintMessage([ text |-> "Failed to delete folder: ",
                                            paths |-> << Head(paths) >> ]) >>,
                                Counter)

OnDeleteEmptyFoldersButtonClicked ==
    IF FolderPathsSelected = << >> THEN Return("DeleteEmptyFolders", << >>, << >>)
    ELSE LET FolderPaths == ListAssets(FolderPathsSelected[1], TRUE) IN
    \E fix \in FixUpRedirectors(<< pGame >>) :
    LET empty == EmptyFolderPaths(FolderPaths) IN
    IF empty = << >>
    THEN \E d \in ShowMessageDialog("Ok", MsgNoEmpty, FALSE) :
            /\ lastRun' = [ op |-> "DeleteEmptyFolders", pre |-> Pre,
                            calls |-> fix.calls \o << d >>, ret |-> << >> ]
            /\ redirectors' = fix.redirectors
            /\ UNCHANGED << FolderPathsSelected, assetState, dirs >>
    ELSE \E d \in ShowMessageDialog("OkCancel",
                     [ text |-> "Empty folders found in:", paths |-> empty ], FALSE) :
         IF d.response # "Ok"
         THEN /\ lastRun' = [ op |-> "DeleteEmptyFolders", pre |-> Pre,
                              calls |-> fix.calls \o << d >>, ret |-> << >> ]
              /\ redirectors' = fix.redirectors
              /\ UNCHANGED << FolderPathsSelected, assetState, dirs >>
         ELSE LET done == DeleteFolders(empty, dirs, << >>, 0) IN
              /\ lastRun' = [ op |-> "DeleteEmptyFolders", pre |-> Pre,
                              calls |-> fix.calls \o << d >> \o done.calls \o
                                 ( IF done.Counter > 0
                                   THEN << ShowNotifyInfo(
                                             [ text |-> "Successfully deleted folders",
                                               paths |-> << >>,
                                               count |-> done.Counter ]) >>
                                   ELSE << >> ),
                              ret |-> << >> ]
              /\ dirs' = done.dirs
              /\ redirectors' = fix.redirectors
              /\ UNCHANGED << FolderPathsSelected, assetState >>

\* The loop of lines 303-314.
IsAvailableAsset(AssetPathName) ==
    /\ ~IsExcludedPath(AssetPathName)
    /\ DoesAssetExist(AssetPathName)

GetAllAssetsDataUnderSelectedFolder ==
    IF FolderPathsSelected = << >> THEN << >>
    ELSE SelectSeq(ListAssets(FolderPathsSelected[1], FALSE), IsAvailableAsset)

\* OnSpawnAdvanceDeletionTab: the tab is built from the assets found.
OnSpawnAdvanceDeletionTab ==
    Return("SpawnAdvanceDeletionTab", << >>, GetAllAssetsDataUnderSelectedFolder)

-----------------------------------------------------------------------------
(***************************************************************************)
(* SpecUE: the editor module.  The host calls the menu extender with the   *)
(* folders selected and invokes the three handlers.                        *)
(***************************************************************************)

\* The longest selection the Content Browser hands over.
MaxSelected == 2

Selections == UNION { [ 1..n -> SelectablePaths ] : n \in 0..MaxSelected }

\* The attribute values of a new node (BaseLoc::initialize).  The radius is
\* counted in halves of a unit; the polygon alpha is 0 or, for any other
\* value, 1; angles are quarter turns.
DefaultAttr ==
    [ presets |-> 6, iconType |-> 13, debugType |-> 0, twoDIconType |-> 43,
      radius |-> 2, rotate |-> << 0, 0, 0 >>, scale |-> << 1, 1, 1 >>,
      offset |-> << 0, 0, 0 >>, localPosition |-> << 0, 0, 0 >>,
      billboard |-> FALSE, displayLocator |-> TRUE,
      dispNum |-> FALSE, dispText |-> FALSE, dispLocPivot |-> FALSE,
      lineWidth |-> 1, polygonAlpha |-> 1,
      inPointArray |-> << >>, inTriangleArray |-> << >> ]

\* The renderer and the disk before anything was drawn or saved: no preset
\* file is there, and nothing was refreshed.
HostAtRest ==
    /\ drawDirty = TRUE
    /\ dagPathValid = TRUE
    /\ refreshed = [ tick |-> 0, isNull |-> TRUE, calls |-> << >> ]
    /\ disk = [ n \in { "box" } |-> [ exists |-> FALSE ] ]
    /\ boundingBox = << >>

\* The locator before its first frame, whatever its attributes are.
LocAtRest ==
    /\ camMatrix = << << 1, 0, 0 >>, << 0, 1, 0 >>, << 0, 0, 1 >> >>
    /\ worldMatrix = << << 1, 0, 0 >>, << 0, 1, 0 >>, << 0, 0, 1 >> >>
    /\ data = [ isNull |-> TRUE ]
    /\ oldData = [ isNull |-> TRUE ]
    /\ m_locPointsNum = 0
    /\ m_locTrianglesNum = 0
    /\ drawLog = << >>
    /\ pc = "idle"

InitUE ==
    /\ attr = DefaultAttr
    /\ tablePoints = << >>
    /\ LocAtRest
    /\ FolderPathsSelected = << >>
    /\ assetState \in { f \in [ AllAssets -> { "none", "stale", "unused", "used" } ] :
                          /\ f[aAX] # "stale"
                          /\ f[aDevZ] \in { "none", "unused" } }
    /\ dirs = AllDirs
    /\ redirectors = AllRedirectors
    /\ lastRun = [ op |-> "StartupModule", pre |-> Pre, calls |-> << >>, ret |-> << >> ]
    /\ HostAtRest

MenuExtender == \E SelectedPaths \in Selections :
                   CustomContentBrowserMenuExtender(SelectedPaths)

NextUE ==
    \/ MenuExtender /\ UNCHANGED << locVars, hostVars >>
    \/ OnDeleteUnusedAssetsButtonClicked /\ UNCHANGED << locVars, hostVars >>
    \/ OnDeleteEmptyFoldersButtonClicked /\ UNCHANGED << locVars, hostVars >>
    \/ OnSpawnAdvanceDeletionTab /\ UNCHANGED << locVars, hostVars >>

SpecUE == InitUE /\ [][NextUE]_vars

-----------------------------------------------------------------------------
(***************************************************************************)
(* Properties of the editor module, stated over the last handler run.      *)
(***************************************************************************)

calls == lastRun.calls

IsCall(i, kind) == calls[i].call = kind

IsDialog(i, Message) == IsCall(i, "MessageDialog") /\ calls[i].msg = Message

RanDeleteUnused == lastRun.op = "DeleteUnusedAssets"

RanDeleteEmpty == lastRun.op = "DeleteEmptyFolders"

RanSpawnTab == lastRun.op = "SpawnAdvanceDeletionTab"

\* What the last run removed from the host.
AssetsDeleted == { a \in AllAssets : lastRun.pre.assets[a] # "none" /\ assetState[a] = "none" }

FoldersDeleted == lastRun.pre.dirs \ dirs

RedirectorsFixed == lastRun.pre.redirectors \ redirectors

\* The assets the registry listed below the folder when the run started.
ListedUnder(dir) ==
    { a \in AllAssets : lastRun.pre.assets[a] # "none" /\ IsUnder(a, dir) }

\* C4: OnDeleteUnusedAssetsButtonClicked prompts the user with a Yes/No
\* confirmation before deleting: a run that fixes up redirectors or calls
\* DeleteAssets has shown, before that, the confirmation as a Yes/No dialog,
\* and a run whose confirmation was answered No fixes up no redirector and
\* deletes no asset.
C4_YesNoPromptBeforeDelete ==
    RanDeleteUnused =>
       /\ \A i \in 1..Len(calls) :
             ( IsCall(i, "FixUpRedirectors") \/ IsCall(i, "DeleteAssets") ) =>
                \E j \in 1..(i - 1) :
                   /\ IsDialog(j, MsgConfirm)
                   /\ calls[j].shown = "YesNo"
                   /\ calls[j].response = "Yes"
       /\ ( \E j \in 1..Len(calls) : IsDialog(j, MsgConfirm) /\ calls[j].response = "No" ) =>
             /\ \A i \in 1..Len(calls) :
                   ~IsCall(i, "FixUpRedirectors") /\ ~IsCall(i, "DeleteAssets")
             /\ AssetsDeleted = {} /\ RedirectorsFixed = {}

\* C5: OnDeleteEmptyFoldersButtonClicked deletes only on consent: a run that
\* deletes a folder has shown, before that, an Ok/Cancel dialog listing the
\* empty folders and was answered Ok; a run answered otherwise deletes no
\* folder.
C5_OkCancelPromptBeforeDelete ==
    RanDeleteEmpty =>
       /\ \A i \in 1..Len(calls) :
             IsCall(i, "DeleteDirectory") =>
                \E j \in 1..(i - 1) :
                   /\ IsCall(j, "MessageDialog")
                   /\ calls[j].msg.text = "Empty folders found in:"
                   /\ calls[i].path \in Range(calls[j].msg.paths)
                   /\ calls[j].shown = "OkCancel"
                   /\ calls[j].response = "Ok"
       /\ ( \E j \in 1..Len(calls) :
               /\ IsCall(j, "MessageDialog")
               /\ calls[j].msg.text = "Empty folders found in:"
               /\ calls[j].response # "Ok" ) =>
             /\ \A i \in 1..Len(calls) : ~IsCall(i, "DeleteDirectory")
             /\ FoldersDeleted = {}

\* C6: ShowMessageDialog displays a dialog of the MessageType it is given,
\* for either value of bShowMessageAsWarning, and returns the response the
\* user gave to that dialog.
C6_DialogOfGivenType ==
    \A i \in 1..Len(calls) :
       IsCall(i, "MessageDialog") =>
          /\ calls[i].shown = calls[i].requested
          /\ calls[i].response \in Buttons(calls[i].requested)

\* C7: OnDeleteUnusedAssetsButtonClicked verifies that exactly one folder is
\* selected: called with no folder or with more than one, it displays the
\* dialog asking to select only one folder and deletes nothing.
C7_OneFolderOrDialog ==
    ( RanDeleteUnused /\ Len(lastRun.pre.sel) # 1 ) =>
       /\ \E i \in 1..Len(calls) : IsDialog(i, MsgSelectOne)
       /\ \A i \in 1..Len(calls) : ~IsCall(i, "DeleteAssets")
       /\ AssetsDeleted = {} /\ FoldersDeleted = {}

\* C8: no asset and no folder whose path contains "Developers",
\* "Collections", "__ExternalActors__" or "__ExternalObjects__" is deleted
\* by a run of the two delete handlers or returned by
\* GetAllAssetsDataUnderSelectedFolder.
C8_ExcludedNeverTouched ==
    /\ ( RanDeleteUnused \/ RanDeleteEmpty ) =>
          /\ \A a \in AssetsDeleted : ~IsExcludedPath(a)
          /\ \A d \in FoldersDeleted : ~IsExcludedPath(d)
    /\ RanSpawnTab => \A a \in Range(lastRun.ret) : ~IsExcludedPath(a)

\* The top-level package path of an asset path: "/" and its first name.
TopLevelOf(a) == << a[1], a[2] >>

\* C9: OnDeleteUnusedAssetsButtonClicked hands to DeleteAssets only assets
\* that exist and have no package referencer, and only after it has fixed
\* up the redirectors of the top-level package paths of those assets; a run
\* on one folder that lists no asset, or none that is unused, shows the
\* dialog saying so and does not call DeleteAssets.
C9_DeleteOnlyUnusedAfterFixUp ==
    RanDeleteUnused =>
       /\ \A i \in 1..Len(calls) :
             IsCall(i, "DeleteAssets") =>
                /\ calls[i].assets # << >>
                /\ \A a \in Range(calls[i].assets) : lastRun.pre.assets[a] = "unused"
                /\ \E j \in 1..(i - 1) :
                      /\ IsCall(j, "FixUpRedirectors")
                      /\ Range(calls[j].paths) =
                            { TopLevelOf(a) : a \in Range(calls[i].assets) }
       /\ AssetsDeleted \subseteq { a \in AllAssets : lastRun.pre.assets[a] = "unused" }
       /\ Len(lastRun.pre.sel) = 1 =>
             LET listed == ListedUnder(lastRun.pre.sel[1])
                 unused == { a \in listed :
                               lastRun.pre.assets[a] = "unused" /\ ~IsExcludedPath(a) }
             IN  /\ listed = {} =>
                       /\ Len(calls) = 1 /\ IsDialog(1, MsgNoAssets)
                       /\ AssetsDeleted = {}
                 /\ ( listed # {} /\ unused = {} ) =>
                       /\ IsDialog(Len(calls), MsgNoUnused)
                       /\ \A i \in 1..Len(calls) : ~IsCall(i, "DeleteAssets")
                       /\ AssetsDeleted = {}

\* C9's case: a run that listed an unused asset together with a referenced
\* one and handed the unused one to DeleteAssets.
C9_Witness ==
    /\ RanDeleteUnused
    /\ Len(lastRun.pre.sel) = 1
    /\ \E a, b \in ListedUnder(lastRun.pre.sel[1]) :
          /\ lastRun.pre.assets[a] = "used"
          /\ lastRun.pre.assets[b] = "unused"
    /\ \E i \in 1..Len(calls) :
          /\ IsCall(i, "DeleteAssets")
          /\ calls[i].deleted # {}

\* C10: GetAllAssetsDataUnderSelectedFolder returns the assets that exist,
\* are not excluded and lie under the selected folder paths, under every
\* selected path when several are selected, and the empty array when no
\* folder is selected or no asset is found.
C10_AllSelectedFolders ==
    RanSpawnTab =>
       Range(lastRun.ret) =
          { a \in AllAssets :
               /\ lastRun.pre.assets[a] \in { "unused", "used" }
               /\ ~IsExcludedPath(a)
               /\ \E i \in 1..Len(lastRun.pre.sel) : IsUnder(a, lastRun.pre.sel[i]) }

RanMenuExtender == lastRun.op = "MenuExtender"

\* C11: FolderPathsSelected holds the folders currently selected in the
\* Content Browser: after every CustomContentBrowserMenuExtender call it
\* equals the SelectedPaths passed to that call, the empty selection
\* included.
C11_SelectionIsLastPassed ==
    RanMenuExtender => FolderPathsSelected = lastRun.ret

-----------------------------------------------------------------------------
(***************************************************************************)
(* baseLoc: points and matrices.  A point is <<x, y, z>>; a matrix is the  *)
(* 3x3 part of an MMatrix, which is all of it once the translation row is  *)
(* zeroed.  Points multiply from the left (p * M), as in Maya.  Angles are *)
(* whole quarter turns, so that every product is an integer.               *)
(***************************************************************************)

Origin == << 0, 0, 0 >>

Identity == << << 1, 0, 0 >>, << 0, 1, 0 >>, << 0, 0, 1 >> >>

\* MPoint + MVector
VecAdd(a, b) == << a[1] + b[1], a[2] + b[2], a[3] + b[3] >>

\* MPoint * double
VecScale(a, k) == << a[1] * k, a[2] * k, a[3] * k >>

\* MPoint * MMatrix
VecMat(a, M) ==
    << a[1] * M[1][1] + a[2] * M[2][1] + a[3] * M[3][1],
       a[1] * M[1][2] + a[2] * M[2][2] + a[3] * M[3][2],
       a[1] * M[1][3] + a[2] * M[2][3] + a[3] * M[3][3] >>

\* MMatrix * MMatrix
MatMul(A, B) == << VecMat(A[1], B), VecMat(A[2], B), VecMat(A[3], B) >>

Det(M) ==
      M[1][1] * (M[2][2] * M[3][3] - M[2][3] * M[3][2])
    - M[1][2] * (M[2][1] * M[3][3] - M[2][3] * M[3][1])
    + M[1][3] * (M[2][1] * M[3][2] - M[2][2] * M[3][1])

\* MMatrix::inverse(): the adjugate over the determinant.  The matrices
\* inverted here are rotations, whose determinant is 1.
Inverse(M) ==
    LET d == Det(M)
        c(i, j) == LET r1 == (i % 3) + 1
                       r2 == ((i + 1) % 3) + 1
                       c1 == (j % 3) + 1
                       c2 == ((j + 1) % 3) + 1
                   IN  M[r1][c1] * M[r2][c2] - M[r1][c2] * M[r2][c1]
    IN  << << c(1, 1) \div d, c(2, 1) \div d, c(3, 1) \div d >>,
           << c(1, 2) \div d, c(2, 2) \div d, c(3, 2) \div d >>,
           << c(1, 3) \div d, c(2, 3) \div d, c(3, 3) \div d >> >>

\* cos and sin of q quarter turns
Cos(q) == << 1, 0, -1, 0 >>[(q % 4) + 1]

Sin(q) == << 0, 1, 0, -1 >>[(q % 4) + 1]

RotX(q) == << << 1, 0, 0 >>, << 0, Cos(q), Sin(q) >>, << 0, -Sin(q), Cos(q) >> >>

RotY(q) == << << Cos(q), 0, -Sin(q) >>, << 0, 1, 0 >>, << Sin(q), 0, Cos(q) >> >>

RotZ(q) == << << Cos(q), Sin(q), 0 >>, << -Sin(q), Cos(q), 0 >>, << 0, 0, 1 >> >>

\* MEulerRotation(x, y, z, kXYZ).asMatrix(), the angles in quarter turns
EulerMatrix(e) == MatMul(MatMul(RotX(e[1]), RotY(e[2])), RotZ(e[3]))

ScaleMatrix(sc) == << << sc[1], 0, 0 >>, << 0, sc[2], 0 >>, << 0, 0, sc[3] >> >>

\* An MTransformationMatrix keeps its scale and its rotation apart.
\* MTransformationMatrix(M) takes M apart; the matrices taken apart here are
\* rotations.
MTransformationMatrix(M) == [ scale |-> << 1, 1, 1 >>, rotation |-> M ]

\* MTransformationMatrix::setScale(scale, MSpace::kObject)
setScale(tm, sc) == [ tm EXCEPT !.scale = sc ]

\* MTransformationMatrix::rotateBy(e, MSpace::kObject): the rotation is
\* applied in object space, ahead of the rotation there is.
rotateBy(tm, e) == [ tm EXCEPT !.rotation = MatMul(EulerMatrix(e), @) ]

\* MTransformationMatrix::asMatrix(): the scale, then the rotation.
asMatrix(tm) == MatMul(ScaleMatrix(tm.scale), tm.rotation)

\* MPoint::distanceTo(b) == 0.0
DistanceIsZero(a, b) ==
    (a[1] - b[1]) * (a[1] - b[1]) + (a[2] - b[2]) * (a[2] - b[2])
       + (a[3] - b[3]) * (a[3] - b[3]) = 0

-----------------------------------------------------------------------------
(***************************************************************************)
(* BaseLocOverride::prepareForDraw                                         *)
(***************************************************************************)

\* load_iconLocatorData, one array: the numbers of the table three by three.
\* The tables hold whole triples.
RECURSIVE load_iconLocatorData(_)
load_iconLocatorData(values) ==
    IF Len(values) < 3 THEN << >>
    ELSE << << values[1], values[2], values[3] >> >>
            \o load_iconLocatorData(SubSeq(values, 4, Len(values)))

\* The user data before the first frame.
NullData == [ isNull |-> TRUE ]

\* Lines 2200-2850: the plugs read into the data.
ReadPlugs ==
    [ isNull          |-> FALSE,
      m_drawPresets   |-> attr.presets,
      m_drawIconType  |-> attr.iconType,
      m_debugType     |-> attr.debugType,
      m_draw_twod_IconType |-> attr.twoDIconType,
      m_radius        |-> attr.radius,
      m_rotate        |-> attr.rotate,
      m_scale         |-> attr.scale,
      m_offset        |-> attr.offset,
      m_localPos      |-> attr.localPosition,
      m_billboard     |-> attr.billboard,
      m_dispLoc       |-> attr.displayLocator,
      m_dispNum       |-> attr.dispNum,
      m_dispText      |-> attr.dispText,
      m_dispLocPivot  |-> attr.dispLocPivot,
      m_lineWidth     |-> attr.lineWidth,
      m_polygonAlpha  |-> attr.polygonAlpha ]

\* Lines 2870-2876: the facing angle of the preset, in quarter turns.
facing_angle(m_drawPresets) ==
    IF m_drawPresets = 8 THEN << 0, -1, 0 >>
    ELSE IF m_drawPresets = 6 THEN << 1, 0, 0 >>
    ELSE IF m_drawPresets = 3 \/ m_drawPresets = 5 THEN << 0, 0, 0 >>
    ELSE << -1, 0, 0 >>

\* Lines 2852-2881 with the world matrix taken as it is.
BillboardMatrix_NoInverse(m_drawPresets) ==
    LET billboardMat == MatMul(camMatrix, worldMatrix)
    IN  asMatrix(rotateBy(MTransformationMatrix(billboardMat),
                          facing_angle(m_drawPresets)))

\* Lines 2852-2881: the billboard matrix of this frame.
BillboardMatrix(m_drawPresets) ==
    LET billboardMat == MatMul(camMatrix, Inverse(worldMatrix))
    IN  asMatrix(rotateBy(MTransformationMatrix(billboardMat),
                          facing_angle(m_drawPresets)))

\* Lines 2885-2896: the rotate/scale matrix.
RotOffMatrix(d) ==
    asMatrix(rotateBy(setScale(MTransformationMatrix(Identity), d.m_scale),
                      d.m_rotate))

\* Lines 2898-2903: the matrix the geometry is built with.
RotMatrix(d, m_bilboardMatrix) ==
    IF d.m_billboard THEN m_bilboardMatrix ELSE RotOffMatrix(d)

\* The point a table point P becomes: P * r * rM + offV.
PlacePoint(P, r, rM, offV) == VecAdd(VecMat(VecScale(P, r), rM), offV)

\* Lines 3038, 3054, 3062: the test for a break marker.
IsBreak(pt, r, rM, offV) == DistanceIsZero(pt, PlacePoint(Origin, r, rM, offV))

\* Lines 3049-3072: the second pass, from point i on, vB being the loop
\* that is open.
RECURSIVE FillLoops(_, _, _, _, _, _, _)
FillLoops(tmpA, i, loops, vB, r, rM, offV) ==
    IF i > Len(tmpA) THEN loops
    ELSE IF ~IsBreak(tmpA[i], r, rM, offV)
         THEN FillLoops(tmpA, i + 1,
                        [ loops EXCEPT ![vB + 1] = Append(@, tmpA[i]) ],
                        vB, r, rM, offV)
         ELSE FillLoops(tmpA, i + 1, loops,
                        IF vB # Len(loops) THEN vB + 1 ELSE vB, r, rM, offV)

\* Lines 3034-3072 without the breaks: one loop of all the points that
\* are no marker.
OutlineLoops_Unbroken(tmpA, r, rM, offV) ==
    << SelectSeq(tmpA, LAMBDA pt : ~IsBreak(pt, r, rM, offV)) >>

\* Lines 3034-3072: the outline with its breaks.
OutlineLoops(tmpA, r, rM, offV) ==
    LET vC == 1 + Cardinality({ i \in 1..Len(tmpA) : IsBreak(tmpA[i], r, rM, offV) })
    IN  FillLoops(tmpA, 1, [ k \in 1..vC |-> << >> ], 0, r, rM, offV)

IsOutlinePreset(m_drawPresets) ==
    m_drawPresets = 6 \/ m_drawPresets = 8 \/ m_drawPresets = 1 \/ m_drawPresets = 11

RECURSIVE Concat(_)
Concat(ss) == IF ss = << >> THEN << >> ELSE Head(ss) \o Concat(Tail(ss))

Merge(a, b) ==
    [ f \in DOMAIN a \cup DOMAIN b |-> IF f \in DOMAIN b THEN b[f] ELSE a[f] ]

\* The angles a loop "for (i = 0; i < 2 * M_PI; i += M_PI / division)" visits.
\* The source steps by pi/21 (pi/9 for the cone); the model steps by quarter
\* turns, which keeps every coordinate an integer.
Division == 2

Angles == [ k \in 1..(2 * Division) |-> k - 1 ]

\* r * 0.5: the radii of the model are even.
Half(r) == r \div 2

\* One turn of a circle of the points at(q), each but the first appended
\* twice (lines 3118-3131, 3293-3310, 3410-3425).
CircleLine(at) ==
    Concat([ k \in 1..Len(Angles) |->
               IF Angles[k] # 0 THEN << at[Angles[k]], at[Angles[k]] >>
               ELSE << at[Angles[k]] >> ])

\* The fan of a circle round centre (lines 3138-3163, 3314-3342).
CircleFan(at, centre) ==
    Concat([ k \in 1..Len(Angles) |->
               IF Angles[k] # 0 THEN << at[Angles[k]], centre, at[Angles[k]] >>
               ELSE << at[Angles[k]], centre >> ])

\* Lines 2906-3464: the geometry of the preset, built with rM.
Geometry(d, rM, inPointArray, inTriangleArray) ==
    LET r     == d.m_radius
        h     == Half(d.m_radius)
        offV  == VecAdd(d.m_offset, d.m_localPos)
        P(v)  == VecAdd(VecMat(v, rM), offV)
        tmpA  == [ i \in 1..Len(inPointArray) |->
                     PlacePoint(inPointArray[i], r, rM, offV) ]
        tris  == [ i \in 1..Len(inTriangleArray) |->
                     PlacePoint(inTriangleArray[i], r, rM, offV) ]
        empty == [ m_locDrawPoints |-> << >>, m_locDrawTriangles |-> << >>,
                   m_locDrawPointsA |-> << >> ]
    IN  CASE IsOutlinePreset(d.m_drawPresets) ->
               [ empty EXCEPT !.m_locDrawPointsA = OutlineLoops(tmpA, r, rM, offV),
                              !.m_locDrawTriangles = tris ]
          [] d.m_drawPresets = 0 ->
               [ empty EXCEPT
                   !.m_locDrawPoints =
                       CircleLine([ q \in 0..(2 * Division - 1) |-> P(<< Cos(q) * h, 0, Sin(q) * h >>) ]),
                   !.m_locDrawTriangles =
                       CircleFan([ q \in 0..(2 * Division - 1) |-> P(<< Cos(q) * h, 0, Sin(q) * h >>) ], P(Origin)) ]
          [] d.m_drawPresets = 2 ->
               [ empty EXCEPT !.m_locDrawTriangles = tris ]
          [] d.m_drawPresets = 4 ->
               LET a == P(<< -h, 0, -h >>)
                   b == P(<< -h, 0, h >>)
                   c == P(<< h, 0, h >>)
                   e == P(<< h, 0, -h >>)
               IN  [ empty EXCEPT
                       !.m_locDrawPoints = << a, b, c, e, a, e, b, c >>,
                       !.m_locDrawTriangles = << a, b, c, c, e, a >> ]
          [] d.m_drawPresets = 5 ->
               [ empty EXCEPT
                   !.m_locDrawPoints =
                       Append(CircleLine([ q \in 0..(2 * Division - 1) |->
                                 P(<< Cos(q - 1) * h, Sin(q - 1) * h, 0 >>) ]),
                              VecAdd(VecMat(Origin, rM), d.m_localPos)),
                   !.m_locDrawTriangles =
                       CircleFan([ q \in 0..(2 * Division - 1) |-> P(<< Cos(q) * h, Sin(q) * h, 0 >>) ], P(Origin)) ]
          [] d.m_drawPresets = 3 ->
               [ empty EXCEPT
                   !.m_locDrawTriangles =
                       CircleFan([ q \in 0..(2 * Division - 1) |-> P(<< Sin(q) * h, 0, Cos(q) * h >>) ],
                                 P(<< 0, h, 0 >>)) ]
          [] d.m_drawPresets = 7 ->
               [ empty EXCEPT
                   !.m_locDrawPointsA =
                     << Append(CircleLine([ q \in 0..(2 * Division - 1) |-> P(<< Cos(q) * h, 0, Sin(q) * h >>) ]),
                               VecAdd(Origin, offV)),
                        Append(CircleLine([ q \in 0..(2 * Division - 1) |-> P(<< 0, Cos(q) * h, Sin(q) * h >>) ]),
                               VecAdd(Origin, offV)),
                        Append(CircleLine([ q \in 0..(2 * Division - 1) |-> P(<< Cos(q) * h, Sin(q) * h, 0 >>) ]),
                               VecAdd(Origin, offV)) >> ]
          [] OTHER -> empty

\* The triangle table of the preset (BaseLocIcons.h), as numbers.
tableTriangles == << 1, 0, 0, 0, 1, 0, 0, 0, 0 >>

\* The sphere's triangle table (BaseLocIcons.h).
m_locSphereTriangles == << << 1, 0, 0 >>, << 0, 1, 0 >>, << 0, 0, 1 >> >>

IconTypeInRange(d) == d.m_drawIconType >= 0 /\ d.m_drawIconType <= 26

\* The tables are loaded for the box, the camera and the icon; the file
\* preset and the sphere keep what they were given.
LoadsTable(d) ==
    \/ d.m_drawPresets = 1
    \/ d.m_drawPresets = 8
    \/ d.m_drawPresets = 6 /\ IconTypeInRange(d)

\* The data prepareForDraw leaves, given the data it was handed.
PreparedData(old) ==
    LET d   == ReadPlugs
        m_bilboardMatrix ==
               IF d.m_billboard THEN BillboardMatrix(d.m_drawPresets)
               ELSE IF old.isNull THEN Identity
               ELSE old.m_bilboardMatrix
        rM  == RotMatrix(d, m_bilboardMatrix)
        inPointArray ==
               IF LoadsTable(d) THEN load_iconLocatorData(tablePoints)
               ELSE IF d.m_drawPresets = 6 THEN << >>
               ELSE attr.inPointArray
        inTriangleArray ==
               IF LoadsTable(d) THEN load_iconLocatorData(tableTriangles)
               ELSE IF d.m_drawPresets = 2 THEN m_locSphereTriangles
               ELSE IF d.m_drawPresets = 6 THEN << >>
               ELSE attr.inTriangleArray
    IN  Merge(Merge(d, [ m_bilboardMatrix |-> m_bilboardMatrix, m_rotMatrix |-> rM ]),
              Geometry(d, rM, inPointArray, inTriangleArray))

prepareForDraw ==
    /\ pc = "idle"
    /\ data' = PreparedData(data)
    /\ oldData' = IF data.isNull THEN NullData
                  ELSE [ isNull |-> FALSE, m_billboard |-> data.m_billboard,
                         m_bilboardMatrix |-> data.m_bilboardMatrix,
                         m_rotMatrix |-> data.m_rotMatrix ]
    /\ IF IsOutlinePreset(attr.presets)
       THEN /\ m_locPointsNum' =
                  IF LoadsTable(ReadPlugs) THEN Len(load_iconLocatorData(tablePoints))
                  ELSE IF attr.presets = 11 THEN Len(attr.inPointArray)
                  ELSE m_locPointsNum
            /\ m_locTrianglesNum' =
                  IF LoadsTable(ReadPlugs)
                  THEN Len(load_iconLocatorData(tableTriangles))
                  ELSE IF attr.presets = 11 THEN Len(attr.inTriangleArray)
                  ELSE m_locTrianglesNum
       ELSE UNCHANGED << m_locPointsNum, m_locTrianglesNum >>
    /\ drawLog' = << >>
    /\ pc' = "prepared"
    /\ UNCHANGED << attr, tablePoints, camMatrix, worldMatrix >>
    /\ UNCHANGED ueVars

-----------------------------------------------------------------------------
(***************************************************************************)
(* BaseLocOverride::addUIDrawables.  The draw manager is handed            *)
(* primitives; each is logged with the branch that emitted it: the preset  *)
(* the branch tests for, or -1 for the text, the number and the pivot.     *)
(***************************************************************************)

Emit(branch, prim, mode, geom) ==
    [ branch |-> branch, prim |-> prim, mode |-> mode, geom |-> geom ]

Fill(branch, d, drawFill) ==
    IF drawFill THEN << Emit(branch, "mesh", "kTriangles", d.m_locDrawTriangles) >>
    ELSE << >>

Lines(branch, d) == << Emit(branch, "mesh", "kLines", d.m_locDrawPoints) >>

LoopLines(branch, d) ==
    [ i \in 1..Len(d.m_locDrawPointsA) |->
        Emit(branch, "mesh", "kLines", d.m_locDrawPointsA[i]) ]

\* Lines 3728-3768
DrawCircle(d, drawFill) ==
    IF d.m_drawPresets = 0 THEN Fill(0, d, drawFill) \o Lines(0, d) ELSE << >>

\* Lines 3771-3804
DrawBox(d, drawFill) ==
    IF d.m_drawPresets = 1 THEN Fill(1, d, drawFill) \o LoopLines(1, d) ELSE << >>

\* Lines 3808-3823
DrawSphere(d) ==
    IF d.m_drawPresets = 2 THEN Fill(2, d, TRUE) ELSE << >>

\* Lines 3826-3838
DrawCone(d) ==
    IF d.m_drawPresets = 3 THEN Fill(3, d, TRUE) ELSE << >>

\* Lines 3841-3870
DrawRectangle(d, drawFill) ==
    IF d.m_drawPresets = 4 THEN Fill(4, d, drawFill) \o Lines(4, d) ELSE << >>

\* Lines 3873-3888
DrawDragHandle(d, drawFill) ==
    IF d.m_drawPresets = 5 THEN Fill(5, d, drawFill) \o Lines(5, d) ELSE << >>

\* Lines 3893-3938
DrawIcon(d, drawFill) ==
    IF d.m_drawPresets = 6
    THEN Fill(6, d, drawFill)
         \o ( IF d.m_lineWidth # 0 THEN LoopLines(6, d) ELSE << >> )
    ELSE << >>

\* Lines 3941-3959
DrawGyroscope(d) ==
    IF d.m_drawPresets = 7
    THEN << Emit(7, "mesh", "kLines", d.m_locDrawPointsA[1]),
            Emit(7, "mesh", "kLines", d.m_locDrawPointsA[2]),
            Emit(7, "mesh", "kLines", d.m_locDrawPointsA[3]) >>
    ELSE << >>

\* Lines 3965-4005
DrawCamera(d, drawFill) ==
    IF d.m_drawPresets = 8 THEN Fill(8, d, drawFill) \o LoopLines(8, d) ELSE << >>

\* Lines 4009-4055, drawn for the box as well.
DrawFile_AlsoForBox(d, drawFill) ==
    IF d.m_drawPresets = 11 \/ d.m_drawPresets = 1
    THEN Fill(11, d, drawFill) \o LoopLines(11, d)
    ELSE << >>

\* Lines 4009-4055
DrawFile(d, drawFill) ==
    IF d.m_drawPresets = 11 THEN Fill(11, d, drawFill) \o LoopLines(11, d) ELSE << >>

\* Lines 4058-4148: one icon, named by the 2D icon type.
DrawTwoDIcon(d) ==
    IF d.m_drawPresets = 9
    THEN IF d.m_draw_twod_IconType >= 0 /\ d.m_draw_twod_IconType <= 51
         THEN << Emit(9, "icon", "twoD",
                      << VecAdd(VecMat(Origin, d.m_rotMatrix), d.m_localPos) >>) >>
         ELSE << >>
    ELSE << >>

\* Lines 4151-4160
DrawAB(d) ==
    IF d.m_drawPresets = 10 THEN << Emit(10, "line", "A-B", << >>) >> ELSE << >>

\* Lines 4163-4565: every debug type draws the pivot icon and its read-out.
DrawDebug(d) ==
    IF d.m_drawPresets = 12
    THEN IF d.m_debugType >= 0 /\ d.m_debugType <= 5
         THEN << Emit(12, "icon", "SCALE_PIVOT", << >>),
                 Emit(12, "text2d", "debug", << >>) >>
         ELSE << >>
    ELSE << >>

\* Lines 4567-4620
DrawExtras(d) ==
    ( IF d.m_dispText THEN << Emit(-1, "text", "text", << >>) >> ELSE << >> )
    \o ( IF d.m_dispNum THEN << Emit(-1, "text", "locID", << >>) >> ELSE << >> )
    \o ( IF d.m_dispLocPivot THEN << Emit(-1, "icon", "SCALE_PIVOT", << >>) >> ELSE << >> )

\* What addUIDrawables hands the draw manager for the user data d.
Drawables(d) ==
    IF d.isNull THEN << >>
    ELSE IF ~d.m_dispLoc THEN << >>
    ELSE LET drawFill == d.m_polygonAlpha # 0
         IN  DrawCircle(d, drawFill) \o DrawBox(d, drawFill) \o DrawSphere(d)
             \o DrawCone(d) \o DrawRectangle(d, drawFill)
             \o DrawDragHandle(d, drawFill) \o DrawIcon(d, drawFill)
             \o DrawGyroscope(d) \o DrawCamera(d, drawFill) \o DrawFile(d, drawFill)
             \o DrawTwoDIcon(d) \o DrawAB(d) \o DrawDebug(d) \o DrawExtras(d)

addUIDrawables ==
    /\ pc = "prepared"
    /\ drawLog' = Drawables(data)
    /\ pc' = "idle"
    /\ UNCHANGED << attr, tablePoints, camMatrix, worldMatrix, data, oldData,
                    m_locPointsNum, m_locTrianglesNum >>
    /\ UNCHANGED ueVars

-----------------------------------------------------------------------------
(***************************************************************************)
(* The locator's surroundings: the user sets attributes and moves the      *)
(* camera between frames; Maya calls prepareForDraw and then               *)
(* addUIDrawables for every frame.                                         *)
(***************************************************************************)

\* setAttr on the node
SetAttr(name, value) ==
    /\ pc = "idle"
    /\ attr[name] # value
    /\ attr' = [ attr EXCEPT ![name] = value ]
    /\ UNCHANGED << tablePoints, camMatrix, worldMatrix, data, oldData,
                    m_locPointsNum, m_locTrianglesNum, drawLog, pc >>
    /\ UNCHANGED ueVars

\* The editor module while the locator is at work.
UEAtRest ==
    /\ FolderPathsSelected = << >>
    /\ assetState = [ a \in AllAssets |-> "none" ]
    /\ dirs = AllDirs
    /\ redirectors = {}
    /\ lastRun = [ op |-> "StartupModule",
                   pre |-> [ sel |-> << >>, assets |-> [ a \in AllAssets |-> "none" ],
                             dirs |-> AllDirs, redirectors |-> {} ],
                   calls |-> << >>, ret |-> << >> ]

\* The largest radius, in halves of the model's unit (the attribute's
\* minimum is 0.1: a radius is never 0).
MaxRadius == 2

Radii == { 2 * k : k \in 1..MaxRadius }

\* The longest outline.
MaxPoints == 3

\* The coordinates an outline table holds; << 0, 0, 0 >> is the break marker.
PointValues == { << 0, 0, 0 >>, << 1, 0, 0 >>, << 0, 1, 0 >> }

PointLists == UNION { [ 1..n -> PointValues ] : n \in 0..MaxPoints }

\* The presets (lines 4656-4675) and the debug types (lines 4772-4782).
Presets == 0..12

DebugTypes == 0..5

(***************************************************************************)
(* SpecOutline: the presets drawn from an outline table, over every table  *)
(* up to MaxPoints points.                                                 *)
(***************************************************************************)

InitOutline ==
    /\ \E ps \in { 1, 6, 8, 11 }, pts \in PointLists,
          sc \in { << 1, 1, 1 >>, << 1, 0, 1 >> },
          off \in { << 0, 0, 0 >>, << 1, 0, 0 >> } :
          /\ attr = [ DefaultAttr EXCEPT !.presets = ps, !.inPointArray = pts,
                                         !.scale = sc, !.offset = off ]
          /\ tablePoints = Concat(pts)
    /\ LocAtRest
    /\ UEAtRest
    /\ HostAtRest

SetRadius == \E r \in Radii : SetAttr("radius", r)

NextOutline ==
    \/ prepareForDraw /\ UNCHANGED hostVars
    \/ addUIDrawables /\ UNCHANGED hostVars
    \/ SetRadius /\ UNCHANGED hostVars

SpecOutline == InitOutline /\ [][NextOutline]_vars

(***************************************************************************)
(* SpecPresets: the user switches between the presets and shows and hides *)
(* the locator.                                                            *)
(***************************************************************************)

InitPresets ==
    /\ \E lw \in { 0, 1 }, pa \in { 0, 1 }, dt \in DebugTypes, num \in BOOLEAN :
          attr = [ DefaultAttr EXCEPT !.lineWidth = lw, !.polygonAlpha = pa,
                                      !.debugType = dt, !.dispNum = num,
                                      !.inPointArray = << << 1, 0, 0 >>, << 0, 0, 0 >>,
                                                         << 0, 1, 0 >> >> ]
    /\ tablePoints = << 1, 0, 0, 0, 0, 0, 0, 1, 0 >>
    /\ LocAtRest
    /\ UEAtRest
    /\ HostAtRest

SetPresets == \E ps \in Presets : SetAttr("presets", ps)

SetDisplayLocator == \E b \in BOOLEAN : SetAttr("displayLocator", b)

NextPresets ==
    \/ prepareForDraw /\ UNCHANGED hostVars
    \/ addUIDrawables /\ UNCHANGED hostVars
    \/ SetPresets /\ UNCHANGED hostVars
    \/ SetDisplayLocator /\ UNCHANGED hostVars

SpecPresets == InitPresets /\ [][NextPresets]_vars

(***************************************************************************)
(* SpecBillboard: the user switches billboarding on and off and turns the  *)
(* camera, the node standing turned in its world.                          *)
(***************************************************************************)

\* The most quarter turns of the camera and of the node about one axis.
MaxTurn == 1

Poses == { << 0, 0, 0 >> }
            \cup { << q, 0, 0 >> : q \in 1..MaxTurn }
            \cup { << 0, q, 0 >> : q \in 1..MaxTurn }

InitBillboard ==
    /\ \E ps \in Presets, rot \in { << 0, 0, 0 >>, << 0, 0, 1 >> },
          sc \in { << 1, 1, 1 >>, << 2, 1, 1 >> } :
          attr = [ DefaultAttr EXCEPT !.presets = ps, !.rotate = rot, !.scale = sc ]
    /\ tablePoints = << 1, 0, 0, 0, 0, 0, 0, 1, 0 >>
    /\ \E w \in Poses : worldMatrix = EulerMatrix(w)
    /\ camMatrix = Identity
    /\ data = NullData
    /\ oldData = NullData
    /\ m_locPointsNum = 0
    /\ m_locTrianglesNum = 0
    /\ drawLog = << >>
    /\ pc = "idle"
    /\ UEAtRest
    /\ HostAtRest

SetBillboard == \E b \in BOOLEAN : SetAttr("billboard", b)

\* The user tumbles the camera.
MoveCamera ==
    /\ pc = "idle"
    /\ \E c \in Poses :
          /\ camMatrix # EulerMatrix(c)
          /\ camMatrix' = EulerMatrix(c)
    /\ UNCHANGED << attr, tablePoints, worldMatrix, data, oldData,
                    m_locPointsNum, m_locTrianglesNum, drawLog, pc >>
    /\ UNCHANGED ueVars

NextBillboard ==
    \/ prepareForDraw /\ UNCHANGED hostVars
    \/ addUIDrawables /\ UNCHANGED hostVars
    \/ SetBillboard /\ UNCHANGED hostVars
    \/ MoveCamera /\ UNCHANGED hostVars

SpecBillboard == InitBillboard /\ [][NextBillboard]_vars

-----------------------------------------------------------------------------
(***************************************************************************)
(* Properties of the locator.                                              *)
(***************************************************************************)

\* The outline table as points, and where prepareForDraw put each of them.
SourcePoints ==
    [ i \in 1..(Len(tablePoints) \div 3) |->
        << tablePoints[3 * i - 2], tablePoints[3 * i - 1], tablePoints[3 * i] >> ]

Placed(P) ==
    VecAdd(VecMat(VecScale(P, data.m_radius), data.m_rotMatrix),
           VecAdd(data.m_offset, data.m_localPos))

PlacedPoints == [ i \in 1..Len(SourcePoints) |-> Placed(SourcePoints[i]) ]

\* The places of the break markers: the points lying on the placed origin.
BreakPlaces == { i \in 1..Len(PlacedPoints) : PlacedPoints[i] = Placed(Origin) }

\* The place of the k-th break marker; 0 ahead of the first, and one past
\* the last point after the last.
BreakPlace(k) ==
    IF k = 0 THEN 0
    ELSE IF k > Cardinality(BreakPlaces) THEN Len(PlacedPoints) + 1
    ELSE CHOOSE i \in BreakPlaces : Cardinality({ j \in BreakPlaces : j < i }) = k - 1

PreparedOutline == pc = "prepared" /\ IsOutlinePreset(data.m_drawPresets)

\* C1: for the presets Box (1), Icon (6), Camera (8) and File (11),
\* prepareForDraw cuts the outline into loops at the break markers: a point
\* at distance 0 from the placed origin closes the loop that is open and is
\* stored in no loop, every other point is appended to the open loop in
\* order, and there is one loop more than there are break markers.
C1_OutlineCutAtBreaks ==
    PreparedOutline =>
       LET loops == data.m_locDrawPointsA
       IN  /\ Len(loops) = Cardinality(BreakPlaces) + 1
           /\ \A k \in 1..Len(loops) :
                 /\ loops[k] = SubSeq(PlacedPoints, BreakPlace(k - 1) + 1,
                                      BreakPlace(k) - 1)
                 /\ \A j \in 1..Len(loops[k]) : loops[k][j] # Placed(Origin)

\* C1's case: an outline with two break markers and a point between them.
C1_Witness ==
    /\ PreparedOutline
    /\ Cardinality(BreakPlaces) >= 2
    /\ \E k \in 1..Len(data.m_locDrawPointsA) : Len(data.m_locDrawPointsA[k]) >= 1
    /\ \E k \in 1..Len(data.m_locDrawPointsA) : Len(data.m_locDrawPointsA[k]) = 0

\* A frame has been drawn with the locator displayed.
DrawnDisplayed == pc = "idle" /\ ~data.isNull /\ data.m_dispLoc

BranchesDrawn == { drawLog[i].branch : i \in 1..Len(drawLog) } \ { -1 }

\* C2 as stated: with displayLocator on, for every preset 0..12 the branch
\* of that preset emits primitives and the branch of no other preset emits
\* anything.
C2_SelectedBranchEmits ==
    DrawnDisplayed => BranchesDrawn = { data.m_drawPresets }

\* C2: with displayLocator on, the branch of no preset but the selected
\* one emits anything, and the selected one emits primitives unless it is
\* Icon (6) with polygon alpha 0 and line width 0, which emits none.
C2_OnlySelectedBranchEmits ==
    DrawnDisplayed =>
       /\ data.m_drawPresets \in Presets
       /\ BranchesDrawn \subseteq { data.m_drawPresets }
       /\ BranchesDrawn = {} <=>
             /\ data.m_drawPresets = 6
             /\ data.m_polygonAlpha = 0
             /\ data.m_lineWidth = 0

\* C2's case: the Icon preset drawn with polygon alpha 0 and line width 0.
C2_Witness ==
    /\ DrawnDisplayed
    /\ data.m_drawPresets = 6
    /\ data.m_polygonAlpha = 0
    /\ data.m_lineWidth = 0
    /\ BranchesDrawn = {}

\* C3: with billboard on, every prepareForDraw computes the rotation matrix
\* anew from the camera matrix and the node's world matrix of that frame, so
\* that the locator, placed in the world, is turned as the camera is (up to
\* the preset's facing angle), and the geometry is built with that matrix
\* in place of the rotate/scale matrix; with billboard off it is built with
\* the rotate/scale matrix.
C3_BillboardFacesCamera ==
    pc = "prepared" =>
       LET h    == data.m_radius \div 2
           offV == VecAdd(data.m_offset, data.m_localPos)
           rM   == data.m_rotMatrix
       IN  /\ data.m_billboard = attr.billboard
           /\ data.m_billboard =>
                 /\ MatMul(rM, worldMatrix) =
                       MatMul(EulerMatrix(facing_angle(data.m_drawPresets)), camMatrix)
                 /\ rM = data.m_bilboardMatrix
           /\ ~data.m_billboard =>
                 rM = MatMul(ScaleMatrix(attr.scale), EulerMatrix(attr.rotate))
           /\ data.m_drawPresets = 4 =>
                 data.m_locDrawPoints[1] = VecAdd(VecMat(<< -h, 0, -h >>, rM), offV)
           /\ data.m_drawPresets \in { 1, 6, 8 } =>
                 data.m_locDrawPointsA[1][1] =
                    VecAdd(VecMat(VecScale(<< 1, 0, 0 >>, data.m_radius), rM), offV)

\* C3's case: two frames in a row drawn with billboard on, the camera
\* turned in between and the node turned in its world.
C3_Witness ==
    /\ pc = "prepared"
    /\ data.m_billboard
    /\ ~oldData.isNull
    /\ oldData.m_billboard
    /\ oldData.m_rotMatrix # data.m_rotMatrix
    /\ worldMatrix # Identity


-----------------------------------------------------------------------------
(***************************************************************************)
(* SpecTopLevel: GetTopLevelPackagePath applied to arrays of asset data.   *)
(* The arrays hold the object paths of registered assets, as               *)
(* UEditorAssetLibrary::FindAssetData gives them for an existing asset.    *)
(***************************************************************************)

\* Assets of a mount point spelled in another case, and of a plugin.
aUpperX  == << "/", "GAME", "/", "A", "/", "X.X" >>
aPluginM == << "/", "Plugin", "/", "M.M" >>

\* The longest array handed to GetTopLevelPackagePath.
MaxArray == 3

AssetArrays ==
    UNION { [ 1..n -> { aAX, aBY, aDevZ, aUpperX, aPluginM } ] : n \in 0..MaxArray }

InitTopLevel ==
    /\ attr = DefaultAttr
    /\ tablePoints = << >>
    /\ LocAtRest
    /\ UEAtRest
    /\ HostAtRest

CallGetTopLevelPackagePath ==
    \E Array \in AssetArrays :
       /\ lastRun' = [ op |-> "GetTopLevelPackagePath", pre |-> Array,
                       calls |-> << >>, ret |-> GetTopLevelPackagePath(Array) ]
       /\ UNCHANGED << FolderPathsSelected, assetState, dirs, redirectors >>
       /\ UNCHANGED << locVars, hostVars >>

NextTopLevel == CallGetTopLevelPackagePath

SpecTopLevel == InitTopLevel /\ [][NextTopLevel]_vars

RanGetTopLevel == lastRun.op = "GetTopLevelPackagePath"

\* Equality of two FNames.
SameFName(a, b) == FNameKey(a) = FNameKey(b)

\* C12: GetTopLevelPackagePath returns the unique top-level package paths of
\* the given assets: no two entries of the result are the same name, the
\* leading "/segment" of every input asset's path is in the result, and
\* every entry of the result is the leading "/segment" of an input asset.
C12_UniqueTopLevelPaths ==
    RanGetTopLevel =>
       LET Array  == lastRun.pre
           Result == lastRun.ret
       IN  /\ \A i, j \in 1..Len(Result) :
                 SameFName(Result[i], Result[j]) => i = j
           /\ \A k \in 1..Len(Array) :
                 \E i \in 1..Len(Result) : SameFName(Result[i], TopLevelOf(Array[k]))
           /\ \A i \in 1..Len(Result) :
                 \E k \in 1..Len(Array) : Result[i] = TopLevelOf(Array[k])

\* C12's case: three assets, two of one mount point spelled in two ways and
\* one of a plugin, gave two top-level paths.
C12_Witness ==
    /\ RanGetTopLevel
    /\ lastRun.pre = << aAX, aUpperX, aPluginM >>
    /\ lastRun.ret = << << "/", "Game" >>, << "/", "Plugin" >> >>


-----------------------------------------------------------------------------
(***************************************************************************)
(* SpecRefresh: the draw callback.  The override is constructed with       *)
(* triggerRefresh as its draw callback and isAlwaysDirty false: Maya calls *)
(* prepareForDraw and addUIDrawables only for a node flagged draw-dirty,   *)
(* and calls the draw callback with the data prepareForDraw last returned, *)
(* or with none, when it draws a frame.  Setting an attribute flags the    *)
(* node; turning the camera does not.                                      *)
(***************************************************************************)

\* The body of triggerRefresh without the test of m_drawPresets.
RefreshCalls_BillboardOnly(pLocatorData, isValid) ==
    IF pLocatorData.isNull THEN << >>
    ELSE IF pLocatorData.m_billboard /\ isValid
    THEN << [ call |-> "setGeometryDrawDirty" ] >>
    ELSE << >>

\* The body of triggerRefresh: the calls it makes on the renderer.
\* m_dagPath.node(&status) succeeds for a valid path.
RefreshCalls(pLocatorData, isValid) ==
    IF pLocatorData.isNull THEN << >>
    ELSE IF pLocatorData.m_billboard \/ pLocatorData.m_drawPresets = 12
    THEN IF isValid THEN << [ call |-> "setGeometryDrawDirty" ] >> ELSE << >>
    ELSE << >>

triggerRefresh ==
    /\ pc = "idle"
    /\ LET made == RefreshCalls(data, dagPathValid)
       IN  /\ refreshed' = [ tick |-> 1 - refreshed.tick, isNull |-> data.isNull,
                             calls |-> made ]
           /\ drawDirty' = ( drawDirty \/ made # << >> )
    /\ UNCHANGED << dagPathValid, disk, boundingBox >>
    /\ UNCHANGED << ueVars, locVars >>

\* Maya prepares the frame of a node that is flagged, and clears the flag.
PrepareDirtyFrame ==
    /\ drawDirty
    /\ dagPathValid
    /\ prepareForDraw
    /\ drawDirty' = FALSE
    /\ UNCHANGED << dagPathValid, refreshed, disk, boundingBox >>

\* The user sets an attribute: the node is flagged.
SetAttrDirty(name, values) ==
    /\ \E v \in values : SetAttr(name, v)
    /\ drawDirty' = TRUE
    /\ UNCHANGED << dagPathValid, refreshed, disk, boundingBox >>

\* The node is taken out of the scene, and put back by undo.
RemoveNode ==
    /\ pc = "idle"
    /\ dagPathValid
    /\ dagPathValid' = FALSE
    /\ UNCHANGED << drawDirty, refreshed, disk, boundingBox >>
    /\ UNCHANGED << ueVars, locVars >>

RestoreNode ==
    /\ pc = "idle"
    /\ ~dagPathValid
    /\ dagPathValid' = TRUE
    /\ drawDirty' = TRUE
    /\ UNCHANGED << refreshed, disk, boundingBox >>
    /\ UNCHANGED << ueVars, locVars >>

InitRefresh ==
    /\ attr = DefaultAttr
    /\ tablePoints = << 1, 0, 0, 0, 0, 0, 0, 1, 0 >>
    /\ LocAtRest
    /\ UEAtRest
    /\ HostAtRest

NextRefresh ==
    \/ PrepareDirtyFrame
    \/ addUIDrawables /\ UNCHANGED hostVars
    \/ triggerRefresh
    \/ SetAttrDirty("billboard", BOOLEAN)
    \/ SetAttrDirty("presets", { 6, 12 })
    \/ MoveCamera /\ UNCHANGED hostVars
    \/ RemoveNode
    \/ RestoreNode

SpecRefresh == InitRefresh /\ [][NextRefresh]_vars

\* The one call that flags the node.
MarksDirty == << [ call |-> "setGeometryDrawDirty" ] >>

\* C13: every triggerRefresh call on a drawn locator with billboard on or
\* preset 12, whose cached dag path is valid, marks the node draw-dirty, so
\* that the node is flagged for prepareForDraw on the next frame; a call
\* with null data, with neither billboard nor preset 12, or with an invalid
\* path marks nothing and leaves the flag as it was.
C13_RefreshMarksDirty ==
    [][ refreshed' # refreshed =>
           IF /\ ~data.isNull
              /\ ( data.m_billboard \/ data.m_drawPresets = 12 )
              /\ dagPathValid
           THEN refreshed'.calls = MarksDirty /\ drawDirty'
           ELSE refreshed'.calls = << >> /\ drawDirty' = drawDirty ]_vars

\* C13's case: a clean node with preset 12 and billboard off was flagged by
\* the draw callback.
C13_Witness ==
    /\ refreshed.calls = MarksDirty
    /\ drawDirty
    /\ ~data.isNull
    /\ data.m_drawPresets = 12
    /\ ~data.m_billboard
    /\ camMatrix # Identity


-----------------------------------------------------------------------------
(***************************************************************************)
(* Utils.h: the preset files.  A text is a sequence of tokens: a numeral,  *)
(* a name, the separator "," or the line end "\n".                         *)
(***************************************************************************)

\* MString() + x for a whole number: its numeral.
FormatDouble(x) == ToString(x)

\* MString::asDouble: the number a numeral stands for, 0.0 for other text.
asDouble(tok) ==
    IF \E x \in -9..9 : ToString(x) = tok
    THEN CHOOSE x \in -9..9 : ToString(x) = tok
    ELSE 0

\* MString() + P.x + "," + P.y + "," + P.z + ","
PointText(P) ==
    << FormatDouble(P[1]), ",", FormatDouble(P[2]), ",", FormatDouble(P[3]), "," >>

\* The loop over the selected edges (lines 280-307): the two end points of
\* each edge and then 0.0, 0.0, 0.0.
EdgesText(edges) ==
    Concat([ k \in 1..Len(edges) |->
               PointText(edges[k][1]) \o PointText(edges[k][2]) \o PointText(Origin) ])

\* The loop over the polygons (lines 337-349): the points of their triangles.
TrianglesText(triangles) ==
    Concat([ k \in 1..Len(triangles) |->
               Concat([ j \in 1..Len(triangles[k]) |-> PointText(triangles[k][j]) ]) ])

\* while (getline(infile, line)): the lines of a text.  A text that ends
\* with a line end has no line after it.
RECURSIVE GetLines(_)
GetLines(text) ==
    IF text = << >> THEN << >>
    ELSE IF \E k \in 1..Len(text) : text[k] = "\n"
    THEN LET k == CHOOSE n \in 1..Len(text) :
                     /\ text[n] = "\n"
                     /\ \A j \in 1..(n - 1) : text[j] # "\n"
         IN  << SubSeq(text, 1, k - 1) >> \o GetLines(SubSeq(text, k + 1, Len(text)))
    ELSE << text >>

\* MString::split(','): the fields between the separators, empty ones left
\* out.
Split(line) == SelectSeq(line, LAMBDA tok : tok # ",")

\* The loops of lines 86-100 and 111-123: one point for every three fields.
\* A file save_locatorData wrote has three fields for every point.
ReadPoints(fields) ==
    [ k \in 1..((Len(fields) + 2) \div 3) |->
        [ c \in 1..3 |->
            IF 3 * (k - 1) + c <= Len(fields) THEN asDouble(fields[3 * (k - 1) + c])
            ELSE 0 ] ]

Min(a, b) == IF a < b THEN a ELSE b

Max(a, b) == IF a > b THEN a ELSE b

\* MBoundingBox::expand over the points, from the empty box: min and max.
RECURSIVE Expand(_, _)
Expand(box, points) ==
    IF points = << >> THEN box
    ELSE LET P == Head(points)
         IN  Expand(IF box = << >> THEN << P, P >>
                    ELSE << [ c \in 1..3 |-> Min(box[1][c], P[c]) ],
                            [ c \in 1..3 |-> Max(box[2][c], P[c]) ] >>,
                    Tail(points))

\* save_locatorData with no -la and no -ta flag, the edges and the mesh
\* selected: the file is written when it could be opened.
save_locatorData(s_presetName, edges, triangles, isOpen) ==
    LET s_lineA     == EdgesText(edges)
        s_triangleA == TrianglesText(triangles)
    IN  /\ disk' = IF isOpen
                   THEN [ disk EXCEPT ![s_presetName] =
                            [ exists |-> TRUE,
                              chars   |-> << s_presetName, "\n" >> \o s_lineA
                                             \o << "\n" >> \o s_triangleA,
                              edges |-> edges, triangles |-> triangles ] ]
                   ELSE disk
        /\ lastRun' = [ op |-> "save_locatorData", pre |-> s_presetName,
                        calls |-> << IF isOpen THEN "displayInfo" ELSE "displayWarning" >>,
                        ret |-> "kSuccess" ]
        /\ UNCHANGED << FolderPathsSelected, assetState, dirs, redirectors >>
        /\ UNCHANGED << locVars, drawDirty, dagPathValid, refreshed, boundingBox >>

\* load_locatorData: the plugs are set from a file of three lines.
load_locatorData(s_presetName) ==
    LET s_lines == IF ~disk[s_presetName].exists THEN << >>
                   ELSE GetLines(disk[s_presetName].chars)
    IN  /\ IF Len(s_lines) = 3
           THEN LET m_line_values_file     == ReadPoints(Split(s_lines[2]))
                    m_triangle_values_file == ReadPoints(Split(s_lines[3]))
                IN  /\ attr' = [ attr EXCEPT !.inPointArray = m_line_values_file,
                                             !.inTriangleArray = m_triangle_values_file ]
                    /\ boundingBox' = Expand(Expand(<< >>, m_triangle_values_file),
                                             m_line_values_file)
                    /\ lastRun' = [ op |-> "load_locatorData", pre |-> s_presetName,
                                    calls |-> << >>, ret |-> "kSuccess" ]
           ELSE /\ UNCHANGED << attr, boundingBox >>
                /\ lastRun' = [ op |-> "load_locatorData", pre |-> s_presetName,
                                calls |-> << "displayInfo: Cant read file" >>,
                                ret |-> "kSuccess" ]
        /\ UNCHANGED << FolderPathsSelected, assetState, dirs, redirectors >>
        /\ UNCHANGED << tablePoints, camMatrix, worldMatrix, data, oldData,
                        m_locPointsNum, m_locTrianglesNum, drawLog, pc >>
        /\ UNCHANGED << drawDirty, dagPathValid, refreshed, disk >>


(***************************************************************************)
(* SpecPresetFile: the user saves selected edges and a selected mesh as a  *)
(* preset and loads the preset into the node.                              *)
(***************************************************************************)

\* The most edges selected, and the most triangles of the selected mesh.
MaxEdges == 2
MaxTriangles == 1

\* The edges and the triangles there are to select.
EdgeValues == { << << 1, 0, 0 >>, << 0, -1, 0 >> >>,
                << << 0, 0, 0 >>, << 1, 0, 0 >> >> }

TriangleValues == { << << 1, 0, 0 >>, << 0, 1, 0 >>, << 0, 0, -1 >> >> }

EdgeLists == UNION { [ 1..n -> EdgeValues ] : n \in 0..MaxEdges }

TriangleLists == UNION { [ 1..n -> TriangleValues ] : n \in 0..MaxTriangles }

PresetNames == { "box" }

InitPresetFile ==
    /\ attr = [ DefaultAttr EXCEPT !.presets = 11 ]
    /\ tablePoints = << >>
    /\ LocAtRest
    /\ UEAtRest
    /\ HostAtRest

SavePreset ==
    \E n \in PresetNames, edges \in EdgeLists, triangles \in TriangleLists,
       isOpen \in BOOLEAN :
       save_locatorData(n, edges, triangles, isOpen)

LoadPreset == \E n \in PresetNames : load_locatorData(n)

NextPresetFile ==
    \/ SavePreset
    \/ LoadPreset

SpecPresetFile == InitPresetFile /\ [][NextPresetFile]_vars

RanLoad == lastRun.op = "load_locatorData"

\* The points a save was given: of every edge its two ends and the break
\* marker, and the points of the triangles.
WrittenLinePoints(edges) ==
    Concat([ k \in 1..Len(edges) |-> << edges[k][1], edges[k][2], Origin >> ])

WrittenTrianglePoints(triangles) == Concat(triangles)

\* C14: after load_locatorData has read a preset that save_locatorData
\* wrote under the same name, the node's inPointArray and inTriangleArray
\* are the point sequences that were written, for every list of edges and
\* of triangles, the empty ones included.
C14_LoadGivesWhatWasSaved ==
    ( RanLoad /\ disk[lastRun.pre].exists ) =>
       /\ attr.inPointArray = WrittenLinePoints(disk[lastRun.pre].edges)
       /\ attr.inTriangleArray = WrittenTrianglePoints(disk[lastRun.pre].triangles)

=============================================================================
